---- MODULE Spec2Model ----
(***************************************************************************)
(* Model of buffer/prioritized_replay.h: the ConcurrentQueue ring store    *)
(* and the PrioritizedReplay layer on top of it.                           *)
(*                                                                         *)
(* Threads: producers calling add (block_append), one consumer thread      *)
(* calling sample / update_priority / keep_priority / get_new_content, and *)
(* one thread per std::async prefetch future running sample_.              *)
(* assert() is modelled as enabled: a failed assertion stops the process   *)
(* (fatal # ""), with the fields as they are when the assertion is reached.*)
(* Weights are integers, so that the running sum is exact.                 *)
(***************************************************************************)
EXTENDS Integers, Sequences, FiniteSets, TLC

\* ------------------------------------------------------------ bounds
\* total number of add calls in one behaviour of Spec
MaxAdd == 2
\* total number of sample calls of the consumer in one behaviour of Spec
MaxSample == 2
\* total number of sample calls of the consumer in one behaviour of SpecBig
MaxSampleBig == 1
\* total number of add calls in one behaviour of SpecBig
MaxAddBig == 3
\* total number of add calls in one behaviour of SpecScan
MaxAddScan == 3
\* total number of add calls in one behaviour of SpecAppend
MaxAddAppend == 3
\* total number of add calls in one behaviour of SpecDrain
MaxAddDrain == 2
\* total number of sample calls of the consumer in one behaviour of SpecDrain
MaxSampleDrain == 1
\* total number of sample calls of the consumer in one behaviour of SpecScan
MaxSampleScan == 2

\* ------------------------------------------------------------ input sets
Producers == {1, 2}
\* Spec: one producer, small stores, prefetch, get_new_content
BlockSizes == {1, 4}
Priorities == {1, 2}
NewPriorities == {1, 2}
BatchSizes == {1}
Capacities == {1, 4}
Prefetches == {0, 1}
SmallCapacities == {1}
DeepPrefetches == {2}
Alphas == {1}
\* SpecBig: two producers, a store with two slots of headroom, no prefetch
BigCapacities == {8}
BigBlockSizes == {1, 9}
BigPriorities == {1}
BigBatchSizes == {1}
BigNewPriorities == {2}
\* SpecAppend: two producers and nothing else; a block may be empty
AppendCapacities == {4}
AppendBlockSizes == {0, 1, 4}
\* SpecScan: one producer, batches of up to two draws, prefetch
ScanCapacities == {4}
ScanPrefetches == {0, 1}
ScanBlockSizes == {1, 2}
ScanPriorities == {1, 2}
ScanBatchSizes == {1, 2}
ScanNewPriorities == {1, 2}
\* SpecDrain: batches of up to two draws by a prefetch worker, while the
\* consumer calls get_new_content
DrainPrefetches == {1}
DrainBlockSizes == {1, 4}
DrainPriorities == {1}
DrainNewPriorities == {2}

VARIABLES
  \* PrioritizedReplay configuration (const members)
  alpha_, prefetch_, capacity_,
  \* ConcurrentQueue
  capacity, head_, tail_, size_, safe_tail_, safe_size_, sum_,
  evicted_, elements_, weights_,
  \* PrioritizedReplay
  num_add_, last_query_, sampled_ids_, futures_, m_sampler_,
  \* threads
  prod,    \* producer threads inside add
  cons,    \* the consumer thread
  fatal,   \* "" while the process runs, else the assertion that stopped it
  hist     \* history: what has happened so far (not program state)

confVars == <<alpha_, prefetch_, capacity_, capacity>>
ringVars == <<head_, tail_, size_, safe_tail_, safe_size_, sum_>>
slotVars == <<evicted_, elements_, weights_>>
replayVars == <<num_add_, last_query_, sampled_ids_, futures_, m_sampler_>>
vars == <<confVars, ringVars, slotVars, replayVars, prod, cons, fatal, hist>>

\* ------------------------------------------------------------ helpers
Min(a, b) == IF a < b THEN a ELSE b

RECURSIVE SeqsOf(_, _)
\* all sequences of length n over S
SeqsOf(S, n) ==
  IF n = 0 THEN {<<>>}
  ELSE {Append(s, x) : s \in SeqsOf(S, n - 1), x \in S}

Range(s) == {s[k] : k \in DOMAIN s}

\* smallest integer >= a / b, for a >= 0 and b > 0
CeilDiv(a, b) == (a + b - 1) \div b

\* int(1.25 * capacity): the conversion truncates
PhysicalCapacity(c) == (5 * c) \div 4

RECURSIVE Pow(_, _)
\* torch::pow(priority, alpha_) for a non-negative integer exponent
Pow(p, a) == IF a = 0 THEN 1 ELSE p * Pow(p, a - 1)

\* ConcurrentQueue::check_size: TRUE when its assertions pass
check_size(head, tail, size) ==
  IF size = 0 THEN tail = head
  ELSE IF tail > head THEN tail - head = size
  ELSE tail + capacity - head = size

\* ------------------------------------------------------------ thread records
IdleProducer ==
  [pc |-> "idle", block |-> <<>>, weights |-> <<>>, start |-> 0, end |-> 0,
   sum |-> 0,
   waited |-> FALSE]   \* whether block_append found no space and waited on cv_size_

\* the locals of one sample_ invocation
NewSampler(bs, pc) ==
  [pc |-> pc, batchsize |-> bs, size |-> 0, sum |-> 0, acc_sum |-> 0,
   next_idx |-> 0, w |-> 0, id |-> 0, i |-> 0,
   samples |-> <<>>, weights |-> <<>>, ids |-> <<>>,
   block_size |-> 0, head |-> 0, diff |-> 0]

NoSampler == NewSampler(0, "none")

\* sample_ has returned: what is left of it is the tuple it returned
Returned(s) ==
  [NewSampler(s.batchsize, "done") EXCEPT
     !.samples = s.samples, !.weights = s.weights, !.ids = s.ids]

IdleConsumer ==
  [pc |-> "idle", s |-> NoSampler, diff |-> 0,
   sample_size |-> 0, head |-> 0,
   ret |-> [op |-> "none"]]   \* the last call that returned, and what it returned

InitHist ==
  [issued |-> 0,       \* elements offered so far; element k is the k-th one
   calls |-> 0,        \* add calls so far
   order |-> <<>>,     \* producers with a reservation not yet committed, oldest first
   committed |-> 0,    \* elements committed to the safe region so far
   fresh |-> <<>>,     \* elements whose add returned since the last get_new_content
   popped |-> {},      \* ring indices popped since sampled_ids_ was last assigned
   due |-> <<>>,       \* fresh, as it was when the running get_new_content was called
   nsample |-> 0,      \* sample calls so far
   returned |-> 0,     \* sample calls that have returned a batch
   empty_call |-> FALSE, \* the last sample call found the safe region empty
                         \* (safe_size = 0, sum = 0), and nothing was committed since
   priority |-> <<>>]  \* the argument of the update_priority that is running

\* ------------------------------------------------------------ initial state
InitWith(caps, prefetches, alphas) ==
  /\ capacity_ \in caps
  /\ prefetch_ \in prefetches
  /\ alpha_ \in alphas
  /\ capacity = PhysicalCapacity(capacity_)
  /\ head_ = 0 /\ tail_ = 0 /\ size_ = 0
  /\ safe_tail_ = 0 /\ safe_size_ = 0 /\ sum_ = 0
  /\ evicted_ = [j \in 0 .. (PhysicalCapacity(capacity_) - 1) |-> FALSE]
  /\ elements_ = [j \in 0 .. (PhysicalCapacity(capacity_) - 1) |-> 0]
  /\ weights_ = [j \in 0 .. (PhysicalCapacity(capacity_) - 1) |-> 0]
  /\ num_add_ = 0 /\ last_query_ = 0
  /\ sampled_ids_ = <<>> /\ futures_ = <<>> /\ m_sampler_ = FALSE
  /\ prod = [p \in Producers |-> IdleProducer]
  /\ cons = IdleConsumer
  /\ fatal = ""
  /\ hist = InitHist

\* every capacity with every prefetch depth up to 1, and the smallest store with
\* a prefetch depth of 2
Init ==
  \/ InitWith(Capacities, Prefetches, Alphas)
  \/ InitWith(SmallCapacities, DeepPrefetches, Alphas)

Running == fatal = ""

\* ------------------------------------------------------------ add / block_append
\* the admission condition of block_append's first wait
HasSpace(n) == size_ + n <= capacity

\* the condition of block_append's second wait
TailOrdered(p) == safe_tail_ = prod[p].start

\* add: weights = pow(priority, alpha_), then block_append is entered
AddCall(p, n, ps, limit) ==
  /\ Running
  /\ prod[p].pc = "idle"
  /\ hist.calls < limit
  /\ prod' = [prod EXCEPT ![p] =
       [IdleProducer EXCEPT
          !.pc = "wait_size",
          !.waited = ~HasSpace(n),
          !.block = [k \in 1 .. n |-> hist.issued + k],
          !.weights = [k \in 1 .. n |-> Pow(ps[k], alpha_)]]]
  /\ hist' = [hist EXCEPT !.issued = @ + n, !.calls = @ + 1]
  /\ UNCHANGED <<confVars, ringVars, slotVars, replayVars, cons, fatal>>

\* block_append, first critical section: wait for space, reserve [start, end)
Reserve(p) ==
  /\ Running
  /\ prod[p].pc = "wait_size"
  /\ LET n == Len(prod[p].block)
         start == tail_
         end == (tail_ + n) % capacity
     IN /\ HasSpace(n)
        /\ tail_' = end
        /\ size_' = size_ + n
        /\ prod' = [prod EXCEPT ![p].pc = "copy", ![p].start = start,
                                ![p].end = end]
        /\ fatal' = IF check_size(head_, end, size_ + n) THEN "" ELSE "check_size"
        /\ hist' = [hist EXCEPT !.order = Append(@, p)]
  /\ UNCHANGED <<confVars, head_, safe_tail_, safe_size_, sum_, slotVars,
                 replayVars, cons>>

RECURSIVE CopyWalk(_, _, _, _)
\* block_append's copy loop from iteration i on: st holds elements_, weights_
\* and the local sum
CopyWalk(i, block, ws, st) ==
  IF i >= Len(block) THEN st
  ELSE LET j == (st.start + i) % capacity
       IN CopyWalk(i + 1, block, ws,
            [start |-> st.start,
             elements |-> [st.elements EXCEPT ![j] = block[i + 1]],
             weights |-> [st.weights EXCEPT ![j] = ws[i + 1]],
             sum |-> st.sum + ws[i + 1]])

\* block_append between its critical sections: the block is copied into the
\* reserved slots outside the lock. The loop is one step: the slots it writes
\* are reserved for this producer alone.
Copy(p) ==
  /\ Running
  /\ prod[p].pc = "copy"
  /\ LET r == CopyWalk(0, prod[p].block, prod[p].weights,
                [start |-> prod[p].start, elements |-> elements_,
                 weights |-> weights_, sum |-> 0])
     IN /\ elements_' = r.elements
        /\ weights_' = r.weights
        /\ prod' = [prod EXCEPT ![p].sum = r.sum, ![p].pc = "wait_tail"]
  /\ UNCHANGED <<confVars, ringVars, evicted_, replayVars, cons, fatal, hist>>

\* block_append, second critical section: wait for the turn, commit the block
Commit(p) ==
  /\ Running
  /\ prod[p].pc = "wait_tail"
  /\ TailOrdered(p)
  /\ LET n == Len(prod[p].block)
     IN /\ safe_tail_' = prod[p].end
        /\ safe_size_' = safe_size_ + n
        /\ sum_' = sum_ + prod[p].sum
        /\ fatal' = IF check_size(head_, prod[p].end, safe_size_ + n)
                    THEN "" ELSE "check_size"
        /\ hist' = [hist EXCEPT !.committed = @ + n, !.empty_call = FALSE,
                                     !.order = SelectSeq(@, LAMBDA q : q # p)]
  /\ prod' = [prod EXCEPT ![p].pc = "count"]
  /\ UNCHANGED <<confVars, head_, tail_, size_, slotVars, replayVars, cons>>

\* a bug: add counts its calls, not its elements
AdmittedOne(p) == 1

\* priority.size(0): what add adds to num_add_
Admitted(p) == Len(prod[p].block)

\* add, after block_append has returned: num_add_ += priority.size(0)
Count(p) ==
  /\ Running
  /\ prod[p].pc = "count"
  /\ num_add_' = num_add_ + Admitted(p)
  /\ prod' = [prod EXCEPT ![p] = IdleProducer]
  /\ hist' = [hist EXCEPT !.fresh = @ \o prod[p].block]
  /\ UNCHANGED <<confVars, ringVars, slotVars, last_query_, sampled_ids_,
                 futures_, m_sampler_, cons, fatal>>

Produce(producers, sizes, priorities, limit) ==
  \E p \in producers :
    \/ \E n \in sizes : \E x \in priorities :
         AddCall(p, n, [k \in 1 .. n |-> x], limit)
    \/ Reserve(p)
    \/ Copy(p)
    \/ Commit(p)
    \/ Count(p)

\* ------------------------------------------------------------ block_pop
RECURSIVE PopWalk(_, _, _, _)
\* block_pop's loop, outside the lock: the head after k more slots, the
\* (negated) sum of their weights, and the evicted flags with those slots set
PopWalk(k, head, diff, ev) ==
  IF k <= 0 THEN [head |-> head, diff |-> diff, evicted |-> ev]
  ELSE PopWalk(k - 1, (head + 1) % capacity, diff - weights_[head],
               [ev EXCEPT ![head] = TRUE])

BlockPopLoop(block_size) == PopWalk(block_size, head_, 0, evicted_)

RECURSIVE PoppedSlots(_, _)
PoppedSlots(k, head) ==
  IF k <= 0 THEN {} ELSE {head} \cup PoppedSlots(k - 1, (head + 1) % capacity)

\* the assertions at the end of block_pop's critical section
PopAsserts(head, safe_size) ==
  IF safe_size < 0 THEN "safe_size"
  ELSE IF ~check_size(head, safe_tail_, safe_size) THEN "check_size"
  ELSE ""

\* block_pop's critical section, with the head and diff its loop computed
BlockPopCommit(block_size, head, diff) ==
  /\ sum_' = sum_ + diff
  /\ head_' = head
  /\ safe_size_' = safe_size_ - block_size
  /\ size_' = size_ - block_size
  /\ fatal' = PopAsserts(head, safe_size_ - block_size)
  /\ UNCHANGED <<tail_, safe_tail_>>

\* ------------------------------------------------------------ sample_
\* who = 0 is the consumer thread running sample_ itself; who = k > 0 is the
\* thread of the k-th future of futures_
Executors == 0 .. Len(futures_)

Smp(who) == IF who = 0 THEN cons.s ELSE futures_[who]

SetSmp(who, s) ==
  IF who = 0
  THEN cons' = [cons EXCEPT !.s = s] /\ UNCHANGED futures_
  ELSE futures_' = [futures_ EXCEPT ![who] = s] /\ UNCHANGED cons

\* The values ceil(rand) can take for draw i. rand = dist(rng_) + i * segment
\* with dist uniform on [0, segment), segment = sum / batchsize, then clamped to
\* sum - 0.2. Prefix sums of integer weights are integers, so acc_sum >= rand
\* is acc_sum >= ceil(rand).
Thresholds(sum, batchsize, i) ==
  IF sum <= 0 THEN {0}
  ELSE CeilDiv(i * sum, batchsize) .. Min(sum, CeilDiv((i + 1) * sum, batchsize))

RECURSIVE ScanAnySum(_, _, _, _, _, _)
\* a bug: the test acc_sum > 0 is missing
ScanAnySum(acc_sum, next_idx, w, id, rand, size) ==
  IF acc_sum >= rand
  THEN [hit |-> TRUE, acc_sum |-> acc_sum, next_idx |-> next_idx, w |-> w, id |-> id]
  ELSE IF next_idx >= size
  THEN [hit |-> FALSE, acc_sum |-> acc_sum, next_idx |-> next_idx, w |-> w, id |-> id]
  ELSE LET j == (head_ + next_idx) % capacity
       IN ScanAnySum(acc_sum + weights_[j], next_idx + 1, weights_[j], j, rand, size)

RECURSIVE Scan(_, _, _, _, _, _)
\* the while loop of one draw: advance the cursor until the prefix sum is
\* positive and reaches the threshold, or the region is exhausted
Scan(acc_sum, next_idx, w, id, rand, size) ==
  IF acc_sum > 0 /\ acc_sum >= rand
  THEN [hit |-> TRUE, acc_sum |-> acc_sum, next_idx |-> next_idx, w |-> w, id |-> id]
  ELSE IF next_idx >= size
  THEN [hit |-> FALSE, acc_sum |-> acc_sum, next_idx |-> next_idx, w |-> w, id |-> id]
  ELSE LET j == (head_ + next_idx) % capacity
       IN Scan(acc_sum + weights_[j], next_idx + 1, weights_[j], j, rand, size)

\* sample_: lock the sampler mutex and take the (safe_size, sum) snapshot
Snapshot(who) ==
  /\ Running
  /\ Smp(who).pc = "start"
  /\ ~m_sampler_
  /\ m_sampler_' = TRUE
  /\ SetSmp(who, [Smp(who) EXCEPT !.pc = "draw", !.size = safe_size_, !.sum = sum_])
  /\ UNCHANGED <<confVars, ringVars, slotVars, num_add_, last_query_,
                 sampled_ids_, prod, fatal, hist>>

\* sample_: draw i of the for loop, with rand the ceiling of its random number
Draw(who, rand) ==
  /\ Running
  /\ Smp(who).pc = "draw"
  /\ LET s == Smp(who)
         r == Scan(s.acc_sum, s.next_idx, s.w, s.id, rand, s.size)
         slot == (head_ + r.next_idx - 1) % capacity
     IN /\ rand \in Thresholds(s.sum, s.batchsize, s.i)
        /\ IF r.hit
           THEN /\ evicted_' = [evicted_ EXCEPT ![slot] = FALSE]
                /\ SetSmp(who,
                     [s EXCEPT !.acc_sum = r.acc_sum, !.next_idx = r.next_idx,
                               !.w = r.w, !.id = r.id, !.i = s.i + 1,
                               !.samples = Append(@, elements_[slot]),
                               !.weights = Append(@, r.w),
                               !.ids = Append(@, r.id),
                               !.pc = IF s.i + 1 = s.batchsize THEN "size" ELSE "draw"])
                /\ UNCHANGED fatal
           ELSE /\ fatal' = "scan"
                /\ SetSmp(who, [s EXCEPT !.pc = "fatal"])
                /\ UNCHANGED evicted_
  /\ UNCHANGED <<confVars, ringVars, elements_, weights_, num_add_, last_query_,
                 sampled_ids_, m_sampler_, prod, hist>>

\* a bug: the overflow is taken against the physical capacity
OverflowPhysical(size) == size - capacity

\* the number of slots sample_ pops when it has read the reserved size
Overflow(size) == size - capacity_

\* sample_: size = storage_.size(); decide whether to pop
ReadSize(who) ==
  /\ Running
  /\ Smp(who).pc = "size"
  /\ IF size_ > capacity_
     THEN /\ SetSmp(who, [Smp(who) EXCEPT !.pc = "pop", !.size = size_,
                                          !.block_size = Overflow(size_)])
          /\ UNCHANGED m_sampler_
     ELSE /\ SetSmp(who, Returned(Smp(who)))
          /\ m_sampler_' = FALSE
  /\ UNCHANGED <<confVars, ringVars, slotVars, num_add_, last_query_,
                 sampled_ids_, prod, fatal, hist>>

\* sample_: the loop of its block_pop
PopLoop(who) ==
  /\ Running
  /\ Smp(who).pc = "pop"
  /\ LET r == BlockPopLoop(Smp(who).block_size)
     IN /\ evicted_' = r.evicted
        /\ SetSmp(who, [Smp(who) EXCEPT !.pc = "popc", !.head = r.head,
                                        !.diff = r.diff])
  /\ UNCHANGED <<confVars, ringVars, elements_, weights_, num_add_, last_query_,
                 sampled_ids_, m_sampler_, prod, fatal, hist>>

\* sample_: the critical section of its block_pop, then the mutex is released
PopCommit(who) ==
  /\ Running
  /\ Smp(who).pc = "popc"
  /\ BlockPopCommit(Smp(who).block_size, Smp(who).head, Smp(who).diff)
  /\ IF PopAsserts(Smp(who).head, safe_size_ - Smp(who).block_size) = ""
     THEN SetSmp(who, Returned(Smp(who))) /\ m_sampler_' = FALSE
     ELSE SetSmp(who, [Smp(who) EXCEPT !.pc = "fatal"]) /\ UNCHANGED m_sampler_
  /\ hist' = [hist EXCEPT
       !.popped = @ \cup PoppedSlots(Smp(who).block_size, head_)]
  /\ UNCHANGED <<confVars, slotVars, num_add_, last_query_, sampled_ids_, prod>>

SampleStep ==
  \/ \E who \in Executors : Snapshot(who)
  \/ \E who \in Executors :
       \E rand \in Thresholds(Smp(who).sum, Smp(who).batchsize, Smp(who).i) :
         Draw(who, rand)
  \/ \E who \in Executors : ReadSize(who)
  \/ \E who \in Executors : PopLoop(who)
  \/ \E who \in Executors : PopCommit(who)

\* ------------------------------------------------------------ sample
RECURSIVE TopUpOneMore(_, _)
\* a bug: the loop runs while size() <= prefetch_
TopUpOneMore(futures, batchsize) ==
  IF Len(futures) <= prefetch_
  THEN TopUpOneMore(Append(futures, NewSampler(batchsize, "start")), batchsize)
  ELSE futures

RECURSIVE TopUp(_, _)
\* the while loop that fills futures_ up to prefetch_ entries
TopUp(futures, batchsize) ==
  IF Len(futures) < prefetch_
  THEN TopUp(Append(futures, NewSampler(batchsize, "start")), batchsize)
  ELSE futures

\* a bug: sample runs sample_ itself when the front future is not ready
SampleCallIfReady(batchsize, limit) ==
  /\ Running
  /\ cons.pc = "idle"
  /\ hist.nsample < limit
  /\ hist' = [hist EXCEPT !.nsample = @ + 1,
                          !.empty_call = (safe_size_ = 0 /\ sum_ = 0)]
  /\ IF sampled_ids_ # <<>>
     THEN /\ fatal' = "sampled"
          /\ UNCHANGED cons
     ELSE /\ UNCHANGED fatal
          /\ IF prefetch_ = 0 \/ futures_ = <<>> \/ futures_[1].pc # "done"
             THEN cons' = [cons EXCEPT !.pc = "sample_",
                                       !.s = NewSampler(batchsize, "start")]
             ELSE cons' = [cons EXCEPT !.pc = "get",
                                       !.s = NewSampler(batchsize, "none")]
  /\ UNCHANGED <<confVars, ringVars, slotVars, replayVars, prod>>

\* sample is entered: the check of sampled_ids_, then the choice of the path
SampleCall(batchsize, limit) ==
  /\ Running
  /\ cons.pc = "idle"
  /\ hist.nsample < limit
  /\ hist' = [hist EXCEPT !.nsample = @ + 1,
                          !.empty_call = (safe_size_ = 0 /\ sum_ = 0)]
  /\ IF sampled_ids_ # <<>>
     THEN /\ fatal' = "sampled"
          /\ UNCHANGED cons
     ELSE /\ UNCHANGED fatal
          /\ IF prefetch_ = 0 \/ futures_ = <<>>
             THEN cons' = [cons EXCEPT !.pc = "sample_",
                                       !.s = NewSampler(batchsize, "start")]
             ELSE cons' = [cons EXCEPT !.pc = "get",
                                       !.s = NewSampler(batchsize, "none")]
  /\ UNCHANGED <<confVars, ringVars, slotVars, replayVars, prod>>

\* sample returns: the batch of its own sample_ or of the front future
\* (futures_.front().get() waits for that future), then futures_ is topped up
SampleReturn ==
  /\ Running
  /\ \/ /\ cons.pc = "sample_" /\ cons.s.pc = "done"
        /\ sampled_ids_' = cons.s.ids
        /\ futures_' = IF prefetch_ = 0 THEN futures_
                       ELSE TopUp(futures_, cons.s.batchsize)
        /\ cons' = [cons EXCEPT !.pc = "idle", !.s = NoSampler,
                      !.ret = [op |-> "sample", batch |-> cons.s.samples]]
     \/ /\ cons.pc = "get" /\ futures_[1].pc = "done"
        /\ sampled_ids_' = futures_[1].ids
        /\ futures_' = TopUp(Tail(futures_), cons.s.batchsize)
        /\ cons' = [cons EXCEPT !.pc = "idle", !.s = NoSampler,
                      !.ret = [op |-> "sample", batch |-> futures_[1].samples]]
  /\ hist' = [hist EXCEPT !.popped = {}, !.returned = @ + 1]
  /\ UNCHANGED <<confVars, ringVars, slotVars, num_add_, last_query_,
                 m_sampler_, prod, fatal>>

\* ------------------------------------------------------------ update_priority
RECURSIVE UpdateWalkFirst(_, _, _, _)
\* a bug: an id that occurs twice keeps the weight of its first position
UpdateWalkFirst(k, ids, ws, st) ==
  IF k > Len(ids) THEN st
  ELSE IF evicted_[ids[k]] \/ (\E j \in 1 .. (k - 1) : ids[j] = ids[k])
  THEN UpdateWalkFirst(k + 1, ids, ws, st)
  ELSE UpdateWalkFirst(k + 1, ids, ws,
         [diff |-> st.diff + (ws[k] - st.weights[ids[k]]),
          weights |-> [st.weights EXCEPT ![ids[k]] = ws[k]]])

RECURSIVE UpdateWalk(_, _, _, _)
\* ConcurrentQueue::update's loop over ids[k..], outside the store lock
UpdateWalk(k, ids, ws, st) ==
  IF k > Len(ids) THEN st
  ELSE IF evicted_[ids[k]] THEN UpdateWalk(k + 1, ids, ws, st)
  ELSE UpdateWalk(k + 1, ids, ws,
         [diff |-> st.diff + (ws[k] - st.weights[ids[k]]),
          weights |-> [st.weights EXCEPT ![ids[k]] = ws[k]]])

\* a bug: update_priority does not wait for the sampler mutex
UpdateLoopUnlocked(ps) ==
  /\ Running
  /\ cons.pc = "idle"
  /\ Len(ps) = Len(sampled_ids_)
  /\ m_sampler_' = TRUE
  /\ LET ws == [k \in 1 .. Len(ps) |-> Pow(ps[k], alpha_)]
         r == UpdateWalk(1, sampled_ids_, ws, [diff |-> 0, weights |-> weights_])
     IN /\ weights_' = r.weights
        /\ cons' = [cons EXCEPT !.pc = "update", !.diff = r.diff]
  /\ hist' = [hist EXCEPT !.priority = ps]
  /\ UNCHANGED <<confVars, ringVars, evicted_, elements_, num_add_, last_query_,
                 sampled_ids_, futures_, prod, fatal>>

\* update_priority: the sampler mutex is taken and update's loop runs
UpdateLoop(ps) ==
  /\ Running
  /\ cons.pc = "idle"
  /\ Len(ps) = Len(sampled_ids_)
  /\ ~m_sampler_
  /\ m_sampler_' = TRUE
  /\ LET ws == [k \in 1 .. Len(ps) |-> Pow(ps[k], alpha_)]
         r == UpdateWalk(1, sampled_ids_, ws, [diff |-> 0, weights |-> weights_])
     IN /\ weights_' = r.weights
        /\ cons' = [cons EXCEPT !.pc = "update", !.diff = r.diff]
  /\ hist' = [hist EXCEPT !.priority = ps]
  /\ UNCHANGED <<confVars, ringVars, evicted_, elements_, num_add_, last_query_,
                 sampled_ids_, futures_, prod, fatal>>

\* update's critical section, the mutex is released, sampled_ids_ is cleared
UpdateCommit ==
  /\ Running
  /\ cons.pc = "update"
  /\ sum_' = sum_ + cons.diff
  /\ m_sampler_' = FALSE
  /\ sampled_ids_' = <<>>
  /\ cons' = [cons EXCEPT !.pc = "idle", !.diff = 0, !.ret = [op |-> "update"]]
  /\ hist' = [hist EXCEPT !.priority = <<>>]
  /\ UNCHANGED <<confVars, head_, tail_, size_, safe_tail_, safe_size_, slotVars,
                 num_add_, last_query_, futures_, prod, fatal>>

\* a bug: keep_priority leaves sampled_ids_ as it is
keep_priority_keeps_ids ==
  /\ Running
  /\ cons.pc = "idle"
  /\ cons' = [cons EXCEPT !.ret = [op |-> "keep"]]
  /\ UNCHANGED <<confVars, ringVars, slotVars, replayVars, prod, fatal, hist>>

keep_priority ==
  /\ Running
  /\ cons.pc = "idle"
  /\ sampled_ids_' = <<>>
  /\ cons' = [cons EXCEPT !.ret = [op |-> "keep"]]
  /\ UNCHANGED <<confVars, ringVars, slotVars, num_add_, last_query_, futures_,
                 m_sampler_, prod, fatal, hist>>

\* ------------------------------------------------------------ get_new_content
RECURSIVE ReadWalk(_, _, _)
\* get_new_content's while loop: offsets cur .. sample_size - 1 from head_
ReadWalk(cur, sample_size, st) ==
  IF cur >= sample_size THEN st
  ELSE LET j == (head_ + cur) % capacity
       IN ReadWalk(cur + 1, sample_size,
            [samples |-> Append(st.samples, elements_[j]),
             weights |-> Append(st.weights, weights_[j]),
             evicted |-> [st.evicted EXCEPT ![j] = FALSE]])

\* get_new_content up to its block_pop call
GetNewContent ==
  /\ Running
  /\ cons.pc = "idle"
  /\ LET sample_size == num_add_ - last_query_
         r == ReadWalk(0, sample_size,
                [samples |-> <<>>, weights |-> <<>>, evicted |-> evicted_])
     IN IF sample_size = 0
        THEN /\ cons' = [cons EXCEPT !.ret =
                  [op |-> "gnc", n |-> 0, batch |-> <<>>, weights |-> <<>>]]
             /\ hist' = [hist EXCEPT !.due = <<>>]
             /\ UNCHANGED <<evicted_, last_query_>>
        ELSE /\ evicted_' = r.evicted
             /\ last_query_' = last_query_ + sample_size
             /\ cons' = [cons EXCEPT !.pc = "gnc_pop", !.sample_size = sample_size,
                  !.ret = [op |-> "gnc", n |-> sample_size, batch |-> r.samples,
                           weights |-> r.weights]]
             /\ hist' = [hist EXCEPT !.due = hist.fresh, !.fresh = <<>>]
  /\ UNCHANGED <<confVars, ringVars, elements_, weights_, num_add_, sampled_ids_,
                 futures_, m_sampler_, prod, fatal>>

\* get_new_content: the loop of its block_pop
GncPopLoop ==
  /\ Running
  /\ cons.pc = "gnc_pop"
  /\ LET r == BlockPopLoop(cons.sample_size)
     IN /\ evicted_' = r.evicted
        /\ cons' = [cons EXCEPT !.pc = "gnc_popc", !.head = r.head, !.diff = r.diff]
  /\ UNCHANGED <<confVars, ringVars, elements_, weights_, replayVars, prod,
                 fatal, hist>>

\* get_new_content: the critical section of its block_pop, then it returns
GncPopCommit ==
  /\ Running
  /\ cons.pc = "gnc_popc"
  /\ BlockPopCommit(cons.sample_size, cons.head, cons.diff)
  /\ IF PopAsserts(cons.head, safe_size_ - cons.sample_size) = ""
     THEN cons' = [cons EXCEPT !.pc = "idle", !.diff = 0, !.head = 0,
                               !.sample_size = 0]
     ELSE cons' = [cons EXCEPT !.pc = "gnc_fatal"]
  /\ hist' = [hist EXCEPT !.popped = @ \cup PoppedSlots(cons.sample_size, head_)]
  /\ UNCHANGED <<confVars, slotVars, replayVars, prod>>

Consume(batchsizes, priorities, limit) ==
  \/ \E batchsize \in batchsizes : SampleCall(batchsize, limit)
  \/ SampleReturn
  \/ \E ps \in SeqsOf(priorities, Len(sampled_ids_)) : UpdateLoop(ps)
  \/ UpdateCommit
  \/ keep_priority

Drain ==
  \/ GetNewContent
  \/ GncPopLoop
  \/ GncPopCommit

Next ==
  \/ Produce({1}, BlockSizes, Priorities, MaxAdd)
  \/ SampleStep
  \/ Consume(BatchSizes, NewPriorities, MaxSample)
  \/ Drain

Spec == Init /\ [][Next]_vars

InitBig == InitWith(BigCapacities, {0}, Alphas)

NextBig ==
  \/ Produce(Producers, BigBlockSizes, BigPriorities, MaxAddBig)
  \/ SampleStep
  \/ Consume(BigBatchSizes, BigNewPriorities, MaxSampleBig)

SpecBig == InitBig /\ [][NextBig]_vars

InitScan == InitWith(ScanCapacities, ScanPrefetches, Alphas)

NextScan ==
  \/ Produce({1}, ScanBlockSizes, ScanPriorities, MaxAddScan)
  \/ SampleStep
  \/ Consume(ScanBatchSizes, ScanNewPriorities, MaxSampleScan)

SpecScan == InitScan /\ [][NextScan]_vars

InitDrain == InitWith(ScanCapacities, DrainPrefetches, Alphas)

NextDrain ==
  \/ Produce({1}, DrainBlockSizes, DrainPriorities, MaxAddDrain)
  \/ SampleStep
  \/ Consume(ScanBatchSizes, DrainNewPriorities, MaxSampleDrain)
  \/ Drain

SpecDrain == InitDrain /\ [][NextDrain]_vars

\* producers alone: no sample, no get_new_content, so nothing is ever popped.
\* A thread that can run does run: the copy loop, the return from
\* block_append and the second critical section of a producer whose wait
\* condition holds (its waiters are notified after every commit).
InitAppend == InitWith(AppendCapacities, {0}, Alphas)

NextAppend == Produce(Producers, AppendBlockSizes, BigPriorities, MaxAddAppend)

FairAppend ==
  \A p \in Producers :
    WF_vars(Copy(p)) /\ WF_vars(Commit(p)) /\ WF_vars(Count(p))

SpecAppend == InitAppend /\ [][NextAppend]_vars /\ FairAppend

\* ------------------------------------------------------------ observations
\* the ring indices of the safe region [head, safe_tail)
SafeSlots == {(head_ + k) % capacity : k \in 0 .. (safe_size_ - 1)}

RECURSIVE WeightsFrom(_, _)
\* the sum of the stored weights of the k slots from ring index j on
WeightsFrom(j, k) ==
  IF k <= 0 THEN 0 ELSE weights_[j] + WeightsFrom((j + 1) % capacity, k - 1)

SafeSum == WeightsFrom(head_, safe_size_)

\* the ring indices a producer has reserved
Reserved(p) == {(prod[p].start + k) % capacity : k \in 0 .. (Len(prod[p].block) - 1)}

InAppend(p) == prod[p].pc \in {"wait_size", "copy", "wait_tail"}

Samplers == {Smp(who) : who \in Executors}

\* no block_append, block_pop or update is in the middle of executing
StoreQuiet ==
  /\ \A p \in Producers : ~InAppend(p)
  /\ cons.pc \notin {"update", "gnc_pop", "gnc_popc"}
  /\ \A s \in Samplers : s.pc \notin {"pop", "popc"}

\* ------------------------------------------------------------ C1
\* C1: in every reachable state 0 <= safe_size <= size <= capacity, tail - head
\* is size modulo capacity and safe_tail - head is safe_size modulo capacity;
\* no pop drives safe_size below 0 or head past safe_tail.
C1_RingAccounting ==
  /\ 0 <= safe_size_ /\ safe_size_ <= size_ /\ size_ <= capacity
  /\ (tail_ - head_) % capacity = size_ % capacity
  /\ (safe_tail_ - head_) % capacity = safe_size_ % capacity

\* ------------------------------------------------------------ C2
\* C2: whenever no block_append, block_pop or update is in the middle of
\* executing, sum is the sum of the stored weights of the safe region.
C2_SumIsSafeRegionSum == (Running /\ StoreQuiet) => sum_ = SafeSum

\* ------------------------------------------------------------ C3
\* C3: blocks are committed in the order of their reservations: the pending
\* reservations, oldest first, lie one after the other from safe_tail to
\* tail, so only the oldest one can pass the second wait; and no slot of a
\* block that is still being copied lies in the safe region.
C3_CommitInReservationOrder ==
  LET o == hist.order
  IN /\ o = <<>> => safe_tail_ = tail_
     /\ o # <<>> => /\ prod[o[1]].start = safe_tail_
                    /\ prod[o[Len(o)]].end = tail_
     /\ \A k \in 1 .. (Len(o) - 1) : prod[o[k + 1]].start = prod[o[k]].end
     /\ \A p \in Producers : prod[p].pc = "copy" => Reserved(p) \cap SafeSlots = {}

\* ------------------------------------------------------------ C4
\* C4: update_priority leaves the weight of every sampled id that was popped
\* since sample returned it as it is, and adds nothing to the sum for it.
C4_PoppedIdsUntouched ==
  [][(cons.pc = "idle" /\ cons'.pc = "update") =>
       /\ \A id \in Range(sampled_ids_) \cap hist.popped :
            weights_'[id] = weights_[id]
       /\ Range(sampled_ids_) \subseteq hist.popped => cons'.diff = 0]_vars

\* ------------------------------------------------------------ C5
\* C5: IDLE -> SAMPLED -> IDLE. A sample that returned leaves sampled_ids
\* non-empty; update_priority and keep_priority leave it empty; sample runs
\* only from IDLE, and a sample called in SAMPLED is fatal and returns nothing.
C5_SampleUpdateCycle ==
  /\ (cons.pc = "idle" /\ cons.ret.op = "sample") => sampled_ids_ # <<>>
  /\ cons.ret.op \in {"update", "keep"} => sampled_ids_ = <<>>
  /\ cons.pc \in {"sample_", "get"} => sampled_ids_ = <<>>
  /\ fatal = "sampled" =>
       /\ sampled_ids_ # <<>>
       /\ cons.pc = "idle"
       /\ hist.returned = hist.nsample - 1

\* a second sample was accepted, after update_priority, and has returned
C5_Witness ==
  /\ hist.returned = 2
  /\ cons.ret.op = "sample"
  /\ sampled_ids_ # <<>>
  /\ fatal = ""

\* ------------------------------------------------------------ C6
\* the step in which sample_'s block_pop leaves its critical section
SamplerPopCommits(who) ==
  Smp(who).pc = "popc" /\ Smp(who)'.pc \in {"done", "fatal"}

GncPopCommits == cons.pc = "gnc_popc" /\ cons'.pc \in {"idle", "gnc_fatal"}

\* C6 as stated: the overflow pop of sample_ leaves the reserved size at the
\* nominal capacity.
C6_PopLeavesNominalSize ==
  [][\A who \in Executors : SamplerPopCommits(who) => size_' = capacity_]_vars

\* C6 as amended: the overflow pop removes exactly s - nominal capacity slots,
\* s being the reserved size sample_ read after its scan; a producer that waits
\* for space is admitted only with size + n <= capacity, and the reserved size
\* decreases only when a block_pop commits.
C6_PopsReadOverflow ==
  [][/\ \A who \in Executors : SamplerPopCommits(who) =>
          /\ Smp(who).size > capacity_
          /\ size_' = size_ - (Smp(who).size - capacity_)
          /\ safe_size_' = safe_size_ - (Smp(who).size - capacity_)
     /\ \A p \in Producers :
          (prod[p].pc = "wait_size" /\ prod'[p].pc = "copy") =>
             size_ + Len(prod[p].block) <= capacity
     /\ size_' < size_ => \/ \E who \in Executors : SamplerPopCommits(who)
                          \/ GncPopCommits]_vars

\* a producer found the store full and waited, sample_ popped, and the
\* producer has reserved its slots
C6_Witness ==
  \E p \in Producers :
    /\ prod[p].waited /\ prod[p].pc = "copy"
    /\ hist.popped # {}
    /\ fatal = ""

\* ------------------------------------------------------------ C7
\* C7 as stated: a sample call that finds the safe region empty (safe_size = 0,
\* sum = 0), with nothing committed since, returns no batch.
C7_EmptySampleIsFatal == hist.empty_call => hist.returned < hist.nsample

\* C7 as amended: a sample_ run whose snapshot finds safe_size = 0 does not get
\* past its first draw: it ends in the scan-exhausted error.
C7_EmptySnapshotIsFatal ==
  \A s \in Samplers :
    (s.pc \in {"draw", "size", "fatal"} /\ s.size = 0) =>
       /\ s.i = 0 /\ s.samples = <<>>
       /\ s.pc # "size"
       /\ s.pc = "fatal" => fatal = "scan"

\* sample_ took an empty snapshot and has ended in the scan-exhausted error
C7_Witness ==
  /\ fatal = "scan"
  /\ \E s \in Samplers : s.pc = "fatal" /\ s.size = 0 /\ s.sum = 0 /\ s.samples = <<>>
  /\ sampled_ids_ = <<>>

\* ------------------------------------------------------------ C8
\* C8: futures_ never holds more than prefetch_ entries, and holds exactly
\* prefetch_ entries from the first return of sample on.
C8_FifoDepth ==
  /\ Len(futures_) <= prefetch_
  /\ hist.returned >= 1 => Len(futures_) = prefetch_

\* two samples have returned, update_priority after the second one
C8_Witness ==
  /\ prefetch_ > 0
  /\ hist.returned = 2
  /\ cons.ret.op = "update"
  /\ Len(futures_) = prefetch_

\* ------------------------------------------------------------ C9
\* C9: num_add never decreases, and when no add is in progress it is the number
\* of elements committed so far.
C9_NumAddCountsCommitted ==
  /\ [][num_add_' >= num_add_]_vars
  /\ []((\A p \in Producers : prod[p].pc = "idle") => num_add_ = hist.committed)

\* no add is in progress, and some of the elements counted have been popped
C9_Witness ==
  /\ \A p \in Producers : prod[p].pc = "idle"
  /\ num_add_ > size_
  /\ size_ > 0
  /\ hist.popped # {}

\* ------------------------------------------------------------ C10
\* the elements stored in the safe region
SafeElements == {elements_[j] : j \in SafeSlots}

\* C10: get_new_content returns the records added since the previous call, and
\* removes them from the store. (The weights it returns are left out here.)
C10_DrainReturnsFresh ==
  /\ cons.pc # "gnc_fatal"
  /\ (cons.pc = "idle" /\ cons.ret.op = "gnc") =>
       /\ Len(cons.ret.batch) = Len(hist.due)
       /\ Range(cons.ret.batch) = Range(hist.due)
       /\ Range(hist.due) \cap SafeElements = {}

\* ------------------------------------------------------------ C11
\* C11: the physical capacity is the ceiling of 1.25 * capacity, the smallest
\* p with 4 * p >= 5 * capacity, and the reserved size never exceeds it.
C11_PhysicalIsCeiling ==
  /\ 4 * capacity >= 5 * capacity_
  /\ 4 * (capacity - 1) < 5 * capacity_
  /\ size_ <= capacity

\* ------------------------------------------------------------ C12
\* the threads running sample_ that hold the sampler mutex and have not yet
\* reached the critical section of their own block_pop
Scanning == {who \in Executors : Smp(who).pc \in {"draw", "size", "pop"}}

\* the ring indices a scan with the snapshot size reads: [head, head + size)
Pinned(size) == {(head_ + k) % capacity : k \in 0 .. (size - 1)}

\* C12: while a sample_ holds the sampler mutex, from its snapshot to its own
\* block_pop, head does not change; and the slots a producer is writing are
\* disjoint from the region [head, head + snapshot size) the scan reads.
C12_ScanRegionPinned ==
  /\ [][Scanning # {} => head_' = head_]_vars
  /\ [](\A who \in Executors : \A p \in Producers :
          (Smp(who).pc = "draw" /\ prod[p].pc = "copy") =>
             Reserved(p) \cap Pinned(Smp(who).size) = {})

\* ------------------------------------------------------------ C13
\* the threads inside the critical section of sample_
InSampler == {who \in Executors : Smp(who).pc \in {"draw", "size", "pop", "popc", "fatal"}}

\* 1 while update_priority is between taking and releasing the sampler mutex
InUpdate == IF cons.pc = "update" THEN 1 ELSE 0

\* C13: at most one thread is inside a sample_ critical section or the storage
\* update of update_priority, and it is the one that holds the sampler mutex.
C13_SamplerMutex ==
  /\ Cardinality(InSampler) + InUpdate <= 1
  /\ m_sampler_ <=> (Cardinality(InSampler) + InUpdate = 1)

\* a prefetch worker waits for the mutex while update_priority holds it;
\* another future has gone through its critical section before
C13_Witness ==
  /\ cons.pc = "update"
  /\ \E who \in 1 .. Len(futures_) : futures_[who].pc = "start"
  /\ hist.returned >= 1
  /\ sampled_ids_ # <<>>

\* ------------------------------------------------------------ C14
\* C14 as stated: sample never waits for a future that is not ready.
C14_NeverWaitsForFuture == ~(cons.pc = "get" /\ futures_[1].pc # "done")

\* C14 as amended: sample runs sample_ itself only while futures_ is empty;
\* with a non-empty FIFO it waits for the front future, whatever its state,
\* and returns that future's batch and ids.
C14_TakesFrontFuture ==
  /\ [](cons.pc = "sample_" => futures_ = <<>>)
  /\ [](cons.pc = "get" => (futures_ # <<>> /\ cons.s.pc = "none"))
  /\ [][(cons.pc = "get" /\ cons'.pc = "idle") =>
          /\ futures_[1].pc = "done"
          /\ sampled_ids_' = futures_[1].ids
          /\ cons'.ret.batch = futures_[1].samples]_vars

\* sample is waiting for a front future that has not finished its scan
C14_Witness ==
  /\ cons.pc = "get"
  /\ futures_[1].pc \in {"start", "draw"}
  /\ hist.returned >= 1
  /\ fatal = ""

\* ------------------------------------------------------------ C20
\* the consumer thread is inside block_pop or update
ConsumerInStore == IF cons.pc \in {"gnc_pop", "gnc_popc", "update"} THEN 1 ELSE 0

\* the sample_ threads inside block_pop
InBlockPop == {who \in Executors : Smp(who).pc \in {"pop", "popc"}}

\* C20: at most one thread is inside block_pop or update at any time.
C20_PopAndUpdateExclusive == Cardinality(InBlockPop) + ConsumerInStore <= 1

\* ------------------------------------------------------------ C15
\* the first offset k from head at which the prefix sum of the weights over
\* offsets 0 .. k is positive and >= rand; size when there is none
FirstCrossing(rand, size) ==
  LET ks == {k \in 0 .. (size - 1) :
               WeightsFrom(head_, k + 1) > 0 /\ WeightsFrom(head_, k + 1) >= rand}
  IN IF ks = {} THEN size ELSE CHOOSE k \in ks : \A l \in ks : k <= l

\* a step in which the sample_ of thread who completes one draw
DrawCompletes(who) ==
  Smp(who).pc = "draw" /\ Smp(who)'.pc \in {"draw", "size"}
  /\ Smp(who)'.i = Smp(who).i + 1

\* C15: each draw picks the first offset whose prefix sum is positive and
\* reaches the threshold of the draw; the id is (head + offset) mod capacity,
\* the recorded weight and element are that slot's; the cursor does not move
\* back, and the running sum is the prefix sum up to the cursor (every weight
\* is read once).
C15_DrawPicksFirstCrossing ==
  [][\A who \in Executors : DrawCompletes(who) =>
       LET s == Smp(who)
           t == Smp(who)'
           k == t.next_idx - 1
           slot == (head_ + k) % capacity
       IN /\ \E rand \in Thresholds(s.sum, s.batchsize, s.i) :
               k = FirstCrossing(rand, s.size)
          /\ t.next_idx >= s.next_idx
          /\ t.acc_sum = WeightsFrom(head_, t.next_idx)
          /\ t.ids = Append(s.ids, slot)
          /\ t.weights = Append(s.weights, weights_[slot])
          /\ t.samples = Append(s.samples, elements_[slot])
          /\ \A n \in 1 .. (Len(t.ids) - 1) :
               (t.ids[n + 1] - head_) % capacity >= (t.ids[n] - head_) % capacity]_vars

\* ------------------------------------------------------------ C16
\* C16: a sample_ with batchsize equal to its snapshot size n, over n slots of
\* one and the same weight, draws every slot of the region exactly once.
C16_EqualWeightsEachOnce ==
  \A s \in Samplers :
    (/\ s.pc = "size"
     /\ s.size = s.batchsize
     /\ \A j \in Pinned(s.size) : weights_[j] = weights_[head_]) =>
       /\ Range(s.ids) = Pinned(s.size)
       /\ Cardinality(Range(s.ids)) = s.batchsize

\* ------------------------------------------------------------ C17
\* the last position of id in ids
LastPos(ids, id) ==
  CHOOSE k \in DOMAIN ids : ids[k] = id /\ \A l \in DOMAIN ids : ids[l] = id => l <= k

\* the slot still holds, in the safe region, the element that sample returned
\* at position k: it has not been popped since it was drawn
StillStored(k) ==
  /\ sampled_ids_[k] \in SafeSlots
  /\ cons.ret.op = "sample"
  /\ elements_[sampled_ids_[k]] = cons.ret.batch[k]

\* C17: update_priority writes new_priorities[k]^alpha to the slot of every
\* position k whose element is still stored (the last position wins for a slot
\* that occurs twice), leaves every slot outside sampled_ids as it is, and
\* sampled_ids is empty when it returns.
C17_UpdateWritesLiveSlots ==
  /\ [][(cons.pc = "idle" /\ cons'.pc = "update") =>
          /\ \A k \in DOMAIN sampled_ids_ : StillStored(k) =>
               weights_'[sampled_ids_[k]] =
                 Pow(hist'.priority[LastPos(sampled_ids_, sampled_ids_[k])], alpha_)
          /\ \A j \in DOMAIN weights_ :
               j \notin Range(sampled_ids_) => weights_'[j] = weights_[j]]_vars
  /\ [][(cons.pc = "update" /\ cons'.pc = "idle") =>
          (sampled_ids_' = <<>> /\ weights_' = weights_)]_vars

\* update_priority has run on a batch that held one slot twice, and has
\* given it the weight of the second position
C17_Witness ==
  /\ cons.pc = "update"
  /\ Len(sampled_ids_) = 2
  /\ sampled_ids_[1] = sampled_ids_[2]
  /\ hist.priority = <<1, 2>>
  /\ weights_[sampled_ids_[1]] = 2
  /\ sampled_ids_[1] \in SafeSlots

\* ------------------------------------------------------------ C19
\* C19: a sample call that returns gives a batch of as many elements as it
\* asked for, and leaves as many ids in sampled_ids.
C19_BatchHasRequestedSize ==
  [][(cons.pc \in {"sample_", "get"} /\ cons'.pc = "idle") =>
       /\ Len(cons'.ret.batch) = cons.s.batchsize
       /\ Len(sampled_ids_') = cons.s.batchsize]_vars

\* ------------------------------------------------------------ C18
\* C18: a producer that has reserved its slots eventually commits and returns
\* from add, with no pop taking place.
C18_ReservedEventuallyReturns ==
  \A p \in Producers :
    (prod[p].pc \in {"copy", "wait_tail"}) ~> (prod[p].pc = "idle")
====
